---- MODULE Spec2Model ----
(***************************************************************************)
(* Order admission, ledger and fulfillment of the Telegram group creator.  *)
(*                                                                         *)
(* Money is held in hundredths (the store's decimal(10,2) columns), so     *)
(* 10 stands for 0.10.  Request bodies carry amounts as strings; a string  *)
(* is a sequence of one-character strings, parsed the way the handler      *)
(* (parseFloat) and the store (numeric input) parse it.                    *)
(***************************************************************************)
EXTENDS Integers, Sequences, FiniteSets, TLC

\* ------------------------------------------------------------------------
\* Bounds of the model
\* ------------------------------------------------------------------------
MaxTx == 2
MaxOrders == 2
MaxBalance == 20
MaxDebt == 10
MinBalance == 0 - MaxDebt
MaxApplied == 2
MaxCharges == 2
MaxConns == 1
MaxStarts == 2
MaxNames == 2
MaxClients == 2
MaxMessages == 2
MaxSent == 2

NULL == "null"
\* an optional number that was not supplied
Undefined == 0 - 1
Users == {"u1"}
Procs == {"p1", "p2"}

\* ------------------------------------------------------------------------
\* Strings and numbers
\* ------------------------------------------------------------------------
DigitChars == <<"0", "1", "2", "3", "4", "5", "6", "7", "8", "9">>

IsDigit(c) == \E i \in 1..10 : DigitChars[i] = c

DigitVal(c) == (CHOOSE i \in 1..10 : DigitChars[i] = c) - 1

\* first position >= i of s that holds no digit (Len(s) + 1 when none)
RECURSIVE DigitsEnd(_, _)
DigitsEnd(s, i) ==
    IF i <= Len(s) /\ IsDigit(s[i]) THEN DigitsEnd(s, i + 1) ELSE i

\* value of the digits s[i..j]
RECURSIVE DigitsVal(_, _, _)
DigitsVal(s, i, j) ==
    IF j < i THEN 0 ELSE DigitsVal(s, i, j - 1) * 10 + DigitVal(s[j])

\* the numeral at the head of s: sign, integer digits, "." and fraction
\* digits; end is the first position after it
Numeral(s) ==
    LET signed   == Len(s) >= 1 /\ s[1] \in {"-", "+"}
        start    == IF signed THEN 2 ELSE 1
        intEnd   == DigitsEnd(s, start)
        hasDot   == intEnd <= Len(s) /\ s[intEnd] = "."
        fracEnd  == IF hasDot THEN DigitsEnd(s, intEnd + 1) ELSE intEnd
        nInt     == intEnd - start
        nFrac    == IF hasDot THEN fracEnd - (intEnd + 1) ELSE 0
        d1       == IF nFrac >= 1 THEN DigitVal(s[intEnd + 1]) ELSE 0
        d2       == IF nFrac >= 2 THEN DigitVal(s[intEnd + 2]) ELSE 0
        abs      == DigitsVal(s, start, intEnd - 1) * 100 + d1 * 10 + d2
    IN  [digits |-> nInt + nFrac,
         end    |-> fracEnd,
         v      |-> IF signed /\ s[1] = "-" THEN 0 - abs ELSE abs]

NaN == [nan |-> TRUE, v |-> 0]

\* parseFloat: the longest numeral prefix, NaN when there is none; what
\* follows the numeral is ignored
ParseFloat(s) ==
    LET n == Numeral(s)
    IN  IF n.digits = 0 THEN NaN ELSE [nan |-> FALSE, v |-> n.v]

\* the store's numeric input: the whole string must be a numeral
ParseNumeric(s) ==
    LET n == Numeral(s)
    IN  IF n.digits = 0 \/ n.end # Len(s) + 1
        THEN [ok |-> FALSE, v |-> 0]
        ELSE [ok |-> TRUE, v |-> n.v]

\* decimal digits of a natural number
RECURSIVE NatToStr(_)
NatToStr(n) ==
    IF n < 10 THEN <<DigitChars[n + 1]>>
    ELSE NatToStr(n \div 10) \o <<DigitChars[(n % 10) + 1]>>

\* `${x}` for a number x: shortest decimal, no trailing zeros
NumToStr(x) ==
    IF x.nan THEN <<"N", "a", "N">>
    ELSE LET abs  == IF x.v < 0 THEN 0 - x.v ELSE x.v
             ip   == abs \div 100
             fp   == abs % 100
             frac == IF fp = 0 THEN <<>>
                     ELSE IF fp % 10 = 0 THEN <<".", DigitChars[(fp \div 10) + 1]>>
                     ELSE <<".", DigitChars[(fp \div 10) + 1], DigitChars[(fp % 10) + 1]>>
         IN  (IF x.v < 0 THEN <<"-">> ELSE <<>>) \o NatToStr(ip) \o frac

\* a comparison that also holds for equal operands
LessThanOrEqual(a, b) == ~a.nan /\ ~b.nan /\ a.v <= b.v

\* balance < orderCost on numbers: false whenever an operand is NaN
LessThan(a, b) == ~a.nan /\ ~b.nan /\ a.v < b.v

\* numeric(10,2) column value rendered by the store: always two decimals
DecimalToStr(v) ==
    LET abs == IF v < 0 THEN 0 - v ELSE v
    IN  (IF v < 0 THEN <<"-">> ELSE <<>>) \o NatToStr(abs \div 100)
            \o <<".", DigitChars[((abs % 100) \div 10) + 1], DigitChars[(abs % 10) + 1]>>

\* ------------------------------------------------------------------------
\* Inputs of the requests
\* ------------------------------------------------------------------------
GroupCounts == {1, 10, 11}
CostStrings == { <<"0", ".", "1">>, <<"-", "0", ".", "1">>, <<"0", ".", "1", "x">> }
AmountStrings == { <<"0", ".", "1">>, <<"-", "0", ".", "1">> }
FundingStrings == { <<"0", ".", "1">> }
PriceStrings == { <<"1", "0", ".", "0", "0">> }
MaxGroupsInputs == {1}
\* bodies of POST /api/transactions: amount, type, status
TransactionBodies ==
    { [amount |-> <<"0", ".", "1">>, type |-> "credit", status |-> NULL],
      [amount |-> <<"-", "0", ".", "1">>, type |-> "credit", status |-> NULL],
      [amount |-> <<"0", ".", "1">>, type |-> "credit", status |-> "completed"],
      [amount |-> <<"0", ".", "1">>, type |-> "debit", status |-> NULL] }
TxHashes == {"h1"}
TxIds == 1..MaxTx

DefaultMaxGroups == 10
DefaultPricePerHundredGroups == 200

\* ------------------------------------------------------------------------
\* State
\* ------------------------------------------------------------------------
VARIABLES
    balance,              \* users.balance, per account, in hundredths
    telegramConnections,  \* set of rows [id, userId, isActive]
    paymentSettings,      \* the singleton row, {} while it is unset
    transactions,         \* sequence of rows; the id of a row is its index
    orders,               \* sequence of rows; the id of a row is its index
    timers,               \* order ids whose fulfillment run is scheduled
    req,                  \* the requests being handled, per handler slot
    applied,              \* history: times a transaction's amount was added
    charged,              \* history: decrements made by admissions
    deltas,               \* history: the amounts handed to updateUserBalance, summed
    groups,               \* sequence of rows; the id of a row is its index
    autoMessages,         \* number of auto-message rows, per group id
    run,                  \* the fulfillment run of each order id
    started,              \* history: fulfillment runs started, per order id
    gateway,              \* the call of createTelegramGroupsWithSession made
    sender,               \* the call of sendAutoMessages made
    sent,                 \* history: messages sent to each group by the gateway
    activeSessions,       \* pending verifications: the client stored per key
    clients,              \* the state of each verification client
    otpTimers,            \* expiry timers of pending verifications, oldest first
    sendCall,             \* the call of sendTelegramOTP in progress
    verifyCall            \* the call of verifyTelegramOTP in progress

vars == <<balance, telegramConnections, paymentSettings, transactions, orders,
          timers, req, applied, charged, deltas, groups, autoMessages, run,
          started, gateway, sender, sent, activeSessions, clients, otpTimers, sendCall,
          verifyCall>>

\* the pending verifications and the calls that work on them
sessions == <<activeSessions, clients, otpTimers, sendCall, verifyCall>>

\* the state of the Telegram gateway module
telegram == <<gateway, sender, sent, sessions>>

\* what no request handler writes
fulfillment == <<groups, autoMessages, run, started, telegram>>

store == <<balance, telegramConnections, paymentSettings, transactions, orders>>

\* the arguments of a store call made directly: none
NoArgs == [status |-> NULL, groupsCreated |-> Undefined, errorMessage |-> NULL]

\* the stats object before any of its fields is read
NoStats == [balance |-> 0, totalGroups |-> 0, activeOrders |-> 0,
            completedOrders |-> 0]

Idle == [op |-> NULL, pc |-> "idle", user |-> NULL, groupCount |-> 0, cost |-> <<>>,
         amount |-> <<>>, type |-> NULL, status |-> NULL, tx |-> 0,
         txHash |-> NULL, orderCost |-> NaN, order |-> 0, found |-> NULL,
         stats |-> NoStats, args |-> NoArgs, res |-> NULL]

OrderIds == 1..MaxOrders
GroupIds == 1..(2 * MaxOrders)

\* an order whose fulfillment run has not started
NoRun == [pc |-> "none", i |-> 0, j |-> 0, messageCount |-> 0, group |-> 0,
          error |-> [isError |-> FALSE, message |-> NULL]]

\* no call of the gateway has been made
NoCall == [pc |-> "none", groupNames |-> <<>>, k |-> 0, connected |-> FALSE,
           channelId |-> "", groups |-> <<>>, outcome |-> NULL, res |-> NULL]

\* no call of sendAutoMessages has been made
NoSend == [pc |-> "none", groupId |-> 0, messages |-> 0, m |-> 0,
           connected |-> FALSE, outcome |-> NULL, res |-> NULL]

\* the keys `${apiId}-${phoneNumber}` of the pending verifications
SessionKeys == {"k1", "k2"}
\* the clients built by sendTelegramOTP, numbered in the order they are built
ClientIds == 1..MaxClients

\* no call of sendTelegramOTP / verifyTelegramOTP is in progress
NoOtpCall == [pc |-> "none", key |-> NULL, client |-> 0, res |-> NULL]

Init ==
    /\ balance = [u \in Users |-> 0]
    /\ telegramConnections = {}
    /\ paymentSettings = {}
    /\ transactions = <<>>
    /\ orders = <<>>
    /\ timers = {}
    /\ req = [p \in Procs |-> Idle]
    /\ applied = [t \in TxIds |-> 0]
    /\ charged = [u \in Users |-> [n |-> 0, sum |-> 0]]
    /\ deltas = [u \in Users |-> 0]
    /\ groups = <<>>
    /\ autoMessages = [g \in GroupIds |-> 0]
    /\ run = [o \in OrderIds |-> NoRun]
    /\ started = [o \in OrderIds |-> 0]
    /\ gateway = NoCall
    /\ sender = NoSend
    /\ sent = [g \in GroupIds |-> 0]
    /\ activeSessions = [k \in SessionKeys |-> 0]
    /\ clients = [c \in ClientIds |-> "unused"]
    /\ otpTimers = <<>>
    /\ sendCall = NoOtpCall
    /\ verifyCall = NoOtpCall

\* a handler slot is free when it handles no request
Free(p) == req[p].pc \in {"idle", "done"}

\* the response is sent: the request ends with result r
Respond(p, r) == [Idle EXCEPT !.pc = "done", !.op = req[p].op, !.tx = req[p].tx,
                                 !.groupCount = req[p].groupCount,
                                 !.order = req[p].order, !.found = req[p].found,
                                 !.res = r]

\* requests in flight that will insert a transaction / an order
PendingTx == Cardinality({p \in Procs : req[p].pc \in
                 {"createTransaction", "adminAddBalance.createTransaction"}})
PendingOrders == Cardinality({p \in Procs : req[p].op = "order" /\ ~Free(p)})
PendingCharges == Cardinality({p \in Procs : req[p].pc \in
                 {"getUser", "getActiveTelegramConnection", "updateUserBalance"}})

\* ------------------------------------------------------------------------
\* Store operations
\* ------------------------------------------------------------------------
\* updateUserBalance: balance := balance + amount, one statement; the amount
\* string must be a numeral of the store
UpdateUserBalanceOk(amount) == ParseNumeric(amount).ok
\* an update that writes the amount over the balance it finds
UpdateUserBalanceSets(u, amount) ==
    [balance EXCEPT ![u] = ParseNumeric(amount).v]

UpdateUserBalance(u, amount) ==
    [balance EXCEPT ![u] = @ + ParseNumeric(amount).v]

\* the amount of the call is added to the sum of the account
DeltasAfter(u, amount) ==
    [deltas EXCEPT ![u] = @ + ParseNumeric(amount).v]

\* the balance stays within the explored range
InRange(u, amount) ==
    LET b == UpdateUserBalance(u, amount)[u]
    IN  b >= MinBalance /\ b <= MaxBalance

\* an insert that ignores the status it is given
CreateTransactionPending(u, type, amount, description, status) ==
    Append(transactions,
           [userId |-> u, type |-> type, amount |-> ParseNumeric(amount).v,
            description |-> description, status |-> "pending",
            txHash |-> NULL])

\* createTransaction: insert one row; status defaults to pending
CreateTransaction(u, type, amount, description, status) ==
    Append(transactions,
           [userId |-> u, type |-> type, amount |-> ParseNumeric(amount).v,
            description |-> description,
            status |-> IF status = NULL THEN "pending" ELSE status,
            txHash |-> NULL])

\* an insert that already marks the row processing
CreateOrderProcessing(u, groupCount, cost) ==
    Append(orders,
           [userId |-> u, groupCount |-> groupCount,
            cost |-> ParseNumeric(cost).v, status |-> "processing",
            groupsCreated |-> 0, errorMessage |-> NULL, completedAt |-> FALSE])

\* createOrder: insert one row, status pending and groupsCreated 0
CreateOrder(u, groupCount, cost) ==
    Append(orders,
           [userId |-> u, groupCount |-> groupCount,
            cost |-> ParseNumeric(cost).v, status |-> "pending",
            groupsCreated |-> 0, errorMessage |-> NULL, completedAt |-> FALSE])

\* if (errorMessage): a string that is supplied and not empty
Truthy(str) == str # NULL /\ str # ""

\* an update that stamps completedAt whatever the status
UpdateOrderStatusStamps(o, status, groupsCreated, errorMessage) ==
    [orders EXCEPT ![o] =
        [@ EXCEPT !.status = status,
                  !.groupsCreated = IF groupsCreated # Undefined THEN groupsCreated ELSE @,
                  !.errorMessage = IF Truthy(errorMessage) THEN errorMessage ELSE @,
                  !.completedAt = TRUE]]

\* an update that writes 0 when no groupsCreated is supplied
UpdateOrderStatusResets(o, status, groupsCreated, errorMessage) ==
    [orders EXCEPT ![o] =
        [@ EXCEPT !.status = status,
                  !.groupsCreated = IF groupsCreated # Undefined THEN groupsCreated ELSE 0,
                  !.errorMessage = IF Truthy(errorMessage) THEN errorMessage ELSE @,
                  !.completedAt = IF status = "completed" THEN TRUE ELSE @]]

\* updateOrderStatus: status always, the other fields only when supplied
UpdateOrderStatus(o, status, groupsCreated, errorMessage) ==
    [orders EXCEPT ![o] =
        [@ EXCEPT !.status = status,
                  !.groupsCreated = IF groupsCreated # Undefined THEN groupsCreated ELSE @,
                  !.errorMessage = IF Truthy(errorMessage) THEN errorMessage ELSE @,
                  !.completedAt = IF status = "completed" THEN TRUE ELSE @]]

\* a connection check that always finds a connection
ConnectionNotRequired(u) == TRUE

\* getActiveTelegramConnection: some active row of the account
HasActiveTelegramConnection(u) ==
    \E c \in telegramConnections : c.userId = u /\ c.isActive

\* the client's calculateCost: (groupCount / 100) * pricePerHundred
CalculateCost(groupCount, pricePerHundred) == (groupCount * pricePerHundred) \div 100

\* a maximum that ignores the setting
MaxGroupsDefaultOnly == DefaultMaxGroups

\* settings?.maxGroupsPerOrder || 10
MaxGroups ==
    IF paymentSettings # {} /\ (CHOOSE r \in paymentSettings : TRUE).maxGroupsPerOrder # 0
    THEN (CHOOSE r \in paymentSettings : TRUE).maxGroupsPerOrder
    ELSE DefaultMaxGroups

\* ------------------------------------------------------------------------
\* POST /api/orders
\* ------------------------------------------------------------------------
\* the request arrives: settings are read, the body is validated and the
\* group count is checked against the maximum
PostOrders(p, u, groupCount, cost) ==
    /\ Free(p)
    /\ Len(orders) + PendingOrders < MaxOrders
    /\ charged[u].n + PendingCharges < MaxCharges
    /\ LET r == [Idle EXCEPT !.op = "order", !.user = u,
                             !.groupCount = groupCount, !.cost = cost]
       IN  req' = [req EXCEPT ![p] =
                IF groupCount < 1
                THEN [Idle EXCEPT !.op = "order", !.pc = "done", !.groupCount = groupCount,
                                  !.res = "InvalidInput"]
                ELSE IF groupCount > MaxGroups
                THEN [Idle EXCEPT !.op = "order", !.pc = "done", !.groupCount = groupCount,
                                  !.res = "LimitExceeded"]
                ELSE [r EXCEPT !.pc = "getUser"]]
    /\ UNCHANGED <<store, deltas, timers, applied, charged>>
    /\ UNCHANGED fulfillment

\* the account is read and its balance compared with the cost of the body
PostOrdersGetUser(p) ==
    /\ req[p].pc = "getUser"
    /\ LET u         == req[p].user
           bal       == ParseFloat(DecimalToStr(balance[u]))
           orderCost == ParseFloat(req[p].cost)
       IN  req' = [req EXCEPT ![p] =
                IF u \notin DOMAIN balance
                THEN Respond(p, "NotFound")
                ELSE IF LessThan(bal, orderCost)
                THEN Respond(p, "InsufficientBalance")
                ELSE [req[p] EXCEPT !.pc = "getActiveTelegramConnection",
                                    !.orderCost = orderCost]]
    /\ UNCHANGED <<store, deltas, timers, applied, charged>>
    /\ UNCHANGED fulfillment

PostOrdersGetActiveTelegramConnection(p) ==
    /\ req[p].pc = "getActiveTelegramConnection"
    /\ req' = [req EXCEPT ![p] =
            IF ~HasActiveTelegramConnection(req[p].user)
            THEN Respond(p, "NoActiveConnection")
            ELSE [req[p] EXCEPT !.pc = "updateUserBalance"]]
    /\ UNCHANGED <<store, deltas, timers, applied, charged>>
    /\ UNCHANGED fulfillment

\* the debit: updateUserBalance(userId, `-${orderCost}`)
PostOrdersUpdateUserBalance(p) ==
    /\ req[p].pc = "updateUserBalance"
    /\ LET u      == req[p].user
           amount == <<"-">> \o NumToStr(req[p].orderCost)
       IN  IF UpdateUserBalanceOk(amount)
           THEN /\ InRange(u, amount)
                /\ balance' = UpdateUserBalance(u, amount)
                /\ deltas' = DeltasAfter(u, amount)
                /\ charged' = [charged EXCEPT ![u] =
                                  [n |-> @.n + 1, sum |-> @.sum + req[p].orderCost.v]]
                /\ req' = [req EXCEPT ![p].pc = "createTransaction"]
           ELSE /\ req' = [req EXCEPT ![p] = Respond(p, "Failed")]
                /\ UNCHANGED <<balance, deltas, charged>>
    /\ UNCHANGED <<telegramConnections, paymentSettings, transactions, orders,
                   timers, applied>>
    /\ UNCHANGED fulfillment

\* the debit transaction is inserted, unless the store rejects the row
PostOrdersCreateTransaction(p) ==
    /\ req[p].pc = "createTransaction"
    /\ \E storeFails \in BOOLEAN :
          IF ~storeFails /\ ParseNumeric(req[p].cost).ok
          THEN /\ Len(transactions) < MaxTx
               /\ transactions' = CreateTransaction(req[p].user, "debit", req[p].cost,
                                                    "order", "completed")
               /\ req' = [req EXCEPT ![p].pc = "createOrder"]
          ELSE /\ req' = [req EXCEPT ![p] = Respond(p, "Failed")]
               /\ UNCHANGED transactions
    /\ UNCHANGED <<balance, deltas, telegramConnections, paymentSettings, orders,
                   timers, applied, charged>>
    /\ UNCHANGED fulfillment

PostOrdersCreateOrder(p) ==
    /\ req[p].pc = "createOrder"
    /\ \E storeFails \in BOOLEAN :
          IF ~storeFails /\ ParseNumeric(req[p].cost).ok
          THEN /\ orders' = CreateOrder(req[p].user, req[p].groupCount, req[p].cost)
               /\ req' = [req EXCEPT ![p].pc = "updateOrderStatus",
                                     ![p].order = Len(orders) + 1]
          ELSE /\ req' = [req EXCEPT ![p] = Respond(p, "Failed")]
               /\ UNCHANGED orders
    /\ UNCHANGED <<balance, deltas, telegramConnections, paymentSettings, transactions,
                   timers, applied, charged>>
    /\ UNCHANGED fulfillment

\* an admission that leaves the status of the new order as it is
MarkedAsPending == "pending"

\* // Mark as processing
MarkedAs == "processing"

\* the order is marked processing, its run is scheduled and the order returned
PostOrdersUpdateOrderStatus(p) ==
    /\ req[p].pc = "updateOrderStatus"
    /\ \E storeFails \in BOOLEAN :
          IF ~storeFails
          THEN /\ orders' = UpdateOrderStatus(req[p].order, MarkedAs, Undefined, NULL)
               /\ timers' = timers \cup {req[p].order}
               /\ req' = [req EXCEPT ![p] = Respond(p, "ok")]
          ELSE /\ req' = [req EXCEPT ![p] = Respond(p, "Failed")]
               /\ UNCHANGED <<orders, timers>>
    /\ UNCHANGED <<balance, deltas, telegramConnections, paymentSettings, transactions,
                   applied, charged>>
    /\ UNCHANGED fulfillment

\* ------------------------------------------------------------------------
\* Ledger requests
\* ------------------------------------------------------------------------
\* POST /api/transactions: the caller's own row, status from the body
PostTransactions(p, u, amount, type, status) ==
    /\ Free(p)
    /\ Len(transactions) + PendingTx < MaxTx
    /\ LET r == [Idle EXCEPT !.op = "transaction", !.pc = "done"]
       IN  IF ParseNumeric(amount).ok
           THEN /\ transactions' = CreateTransaction(u, type, amount, "user", status)
                /\ req' = [req EXCEPT ![p] = [r EXCEPT !.res = "ok",
                                                       !.tx = Len(transactions) + 1]]
           ELSE /\ req' = [req EXCEPT ![p] = [r EXCEPT !.res = "Failed"]]
                /\ UNCHANGED transactions
    /\ UNCHANGED <<balance, deltas, telegramConnections, paymentSettings, orders,
                   timers, applied, charged>>
    /\ UNCHANGED fulfillment

\* POST /api/admin/add-balance, adminAddBalance: the balance is updated first
PostAdminAddBalance(p, u, amount) ==
    /\ Free(p)
    /\ Len(transactions) + PendingTx < MaxTx
    /\ LET r == [Idle EXCEPT !.op = "addBalance", !.user = u, !.amount = amount]
       IN  IF UpdateUserBalanceOk(amount)
           THEN /\ InRange(u, amount)
                /\ balance' = UpdateUserBalance(u, amount)
                /\ deltas' = DeltasAfter(u, amount)
                /\ req' = [req EXCEPT ![p] =
                              [r EXCEPT !.pc = "adminAddBalance.createTransaction"]]
           ELSE /\ req' = [req EXCEPT ![p] =
                              [Idle EXCEPT !.op = "addBalance", !.pc = "done", !.res = "Failed"]]
                /\ UNCHANGED <<balance, deltas>>
    /\ UNCHANGED <<telegramConnections, paymentSettings, transactions, orders,
                   timers, applied, charged>>
    /\ UNCHANGED fulfillment

\* adminAddBalance, second store call: the completed credit row
AdminAddBalanceCreateTransaction(p) ==
    /\ req[p].pc = "adminAddBalance.createTransaction"
    /\ \E storeFails \in BOOLEAN :
          IF ~storeFails
          THEN /\ transactions' = CreateTransaction(req[p].user, "credit", req[p].amount,
                                                    "admin", "completed")
               /\ req' = [req EXCEPT ![p] = Respond(p, "ok")]
          ELSE /\ req' = [req EXCEPT ![p] = Respond(p, "Failed")]
               /\ UNCHANGED transactions
    /\ UNCHANGED <<balance, deltas, telegramConnections, paymentSettings, orders,
                   timers, applied, charged>>
    /\ UNCHANGED fulfillment

\* updateTransactionStatus: status always, txHash only when one is given
UpdateTransactionStatus(t, status, txHash) ==
    [transactions EXCEPT ![t] =
        [@ EXCEPT !.status = status,
                  !.txHash = IF txHash # NULL /\ txHash # "" THEN txHash ELSE @]]

\* a test of the kind of the row that ignores its status
IsCredit(t) == transactions[t].type = "credit"

\* adminApprovePayment adds the amount only for a credit that is pending
IsPendingCredit(t) ==
    transactions[t].type = "credit" /\ transactions[t].status = "pending"

\* POST /api/admin/approve-payment, adminApprovePayment up to its first
\* suspension: a pending credit is added to the balance and the call waits;
\* any other row is marked completed at once
PostAdminApprovePayment(p, t) ==
    /\ Free(p)
    /\ LET r == [Idle EXCEPT !.op = "approve", !.tx = t,
                             !.found = IF t \in DOMAIN transactions
                                       THEN transactions[t].status ELSE NULL]
       IN  IF t \notin DOMAIN transactions
           THEN /\ req' = [req EXCEPT ![p] = [r EXCEPT !.pc = "done", !.res = "Failed"]]
                /\ UNCHANGED <<balance, deltas, transactions, applied>>
           ELSE IF IsPendingCredit(t)
           THEN /\ InRange(transactions[t].userId, DecimalToStr(transactions[t].amount))
                /\ balance' = UpdateUserBalance(transactions[t].userId,
                                                DecimalToStr(transactions[t].amount))
                /\ deltas' = DeltasAfter(transactions[t].userId,
                                                DecimalToStr(transactions[t].amount))
                /\ applied[t] < MaxApplied
                /\ applied' = [applied EXCEPT ![t] = @ + 1]
                /\ req' = [req EXCEPT ![p] =
                              [r EXCEPT !.pc = "adminApprovePayment.updateTransactionStatus"]]
                /\ UNCHANGED transactions
           ELSE /\ transactions' = UpdateTransactionStatus(t, "completed", NULL)
                /\ req' = [req EXCEPT ![p] =
                              [r EXCEPT !.pc = "done", !.res = "ok",
                                        !.status = transactions'[t].status]]
                /\ UNCHANGED <<balance, deltas, applied>>
    /\ UNCHANGED <<telegramConnections, paymentSettings, orders, timers, charged>>
    /\ UNCHANGED fulfillment

\* adminApprovePayment after the balance update: the row is marked completed
\* and returned
AdminApprovePaymentUpdateTransactionStatus(p) ==
    /\ req[p].pc = "adminApprovePayment.updateTransactionStatus"
    /\ transactions' = UpdateTransactionStatus(req[p].tx, "completed", NULL)
    /\ req' = [req EXCEPT ![p] = [Respond(p, "ok") EXCEPT
                                     !.status = transactions'[req[p].tx].status]]
    /\ UNCHANGED <<balance, deltas, telegramConnections, paymentSettings, orders,
                   timers, applied, charged>>
    /\ UNCHANGED fulfillment

\* POST /api/webhook/payment-confirm: the row is marked completed first
PostWebhookPaymentConfirm(p, t, txHash) ==
    /\ Free(p)
    /\ LET r == [Idle EXCEPT !.op = "webhook", !.tx = t, !.txHash = txHash]
       IN  IF t \notin DOMAIN transactions
           THEN /\ req' = [req EXCEPT ![p] = [r EXCEPT !.pc = "done", !.res = "Failed"]]
                /\ UNCHANGED transactions
           ELSE /\ transactions' = UpdateTransactionStatus(t, "completed", txHash)
                /\ req' = [req EXCEPT ![p] =
                              IF transactions[t].type = "credit"
                              THEN [r EXCEPT !.pc = "webhook.updateUserBalance"]
                              ELSE [r EXCEPT !.pc = "done", !.res = "ok"]]
    /\ UNCHANGED <<balance, deltas, telegramConnections, paymentSettings, orders,
                   timers, applied, charged>>
    /\ UNCHANGED fulfillment

\* payment-confirm, second store call: a credit row is added to the balance
WebhookUpdateUserBalance(p) ==
    /\ req[p].pc = "webhook.updateUserBalance"
    /\ LET t == req[p].tx
       IN  /\ InRange(transactions[t].userId, DecimalToStr(transactions[t].amount))
           /\ balance' = UpdateUserBalance(transactions[t].userId,
                                           DecimalToStr(transactions[t].amount))
           /\ deltas' = DeltasAfter(transactions[t].userId,
                                           DecimalToStr(transactions[t].amount))
           /\ applied[t] < MaxApplied
           /\ applied' = [applied EXCEPT ![t] = @ + 1]
    /\ req' = [req EXCEPT ![p] = Respond(p, "ok")]
    /\ UNCHANGED <<telegramConnections, paymentSettings, transactions, orders,
                   timers, charged>>
    /\ UNCHANGED fulfillment

\* ------------------------------------------------------------------------
\* Settings and connections
\* ------------------------------------------------------------------------
\* POST /api/admin/payment-settings: maxGroupsPerOrder must be in 1..100
PostAdminPaymentSettings(p, price, maxGroups) ==
    /\ Free(p)
    /\ LET r == [Idle EXCEPT !.op = "settings", !.pc = "done"]
       IN  IF maxGroups < 1 \/ maxGroups > 100
           THEN /\ req' = [req EXCEPT ![p] = [r EXCEPT !.res = "InvalidInput"]]
                /\ UNCHANGED paymentSettings
           ELSE IF ~ParseNumeric(price).ok
           THEN /\ req' = [req EXCEPT ![p] = [r EXCEPT !.res = "Failed"]]
                /\ UNCHANGED paymentSettings
           ELSE /\ paymentSettings' =
                      {[pricePerHundredGroups |-> ParseNumeric(price).v,
                        maxGroupsPerOrder |-> maxGroups]}
                /\ req' = [req EXCEPT ![p] = [r EXCEPT !.res = "ok"]]
    /\ UNCHANGED <<balance, deltas, telegramConnections, transactions, orders,
                   timers, applied, charged>>
    /\ UNCHANGED fulfillment

\* POST /api/telegram/connect: a new active connection of the caller
PostTelegramConnect(p, u) ==
    /\ Free(p)
    /\ Cardinality(telegramConnections) < MaxConns
    /\ LET id == CHOOSE i \in 1..MaxConns :
                     \A c \in telegramConnections : c.id # i
       IN  telegramConnections' = telegramConnections \cup
                                     {[id |-> id, userId |-> u, isActive |-> TRUE]}
    /\ req' = [req EXCEPT ![p] = [Idle EXCEPT !.op = "connect",
                                             !.pc = "done", !.res = "ok"]]
    /\ UNCHANGED <<balance, deltas, paymentSettings, transactions, orders,
                   timers, applied, charged>>
    /\ UNCHANGED fulfillment

\* DELETE /api/telegram-connections/:id: the caller's connections are read
\* and the id must be among them
DeleteTelegramConnections(p, u, id) ==
    /\ Free(p)
    /\ LET r == [Idle EXCEPT !.op = "disconnect", !.user = u, !.tx = id]
       IN  req' = [req EXCEPT ![p] =
                IF \E c \in telegramConnections : c.userId = u /\ c.id = id
                THEN [r EXCEPT !.pc = "deleteTelegramConnection"]
                ELSE [Idle EXCEPT !.op = "disconnect", !.pc = "done", !.res = "Forbidden"]]
    /\ UNCHANGED <<store, deltas, timers, applied, charged>>
    /\ UNCHANGED fulfillment

DeleteTelegramConnection(p) ==
    /\ req[p].pc = "deleteTelegramConnection"
    /\ telegramConnections' = {c \in telegramConnections : c.id # req[p].tx}
    /\ req' = [req EXCEPT ![p] = Respond(p, "ok")]
    /\ UNCHANGED <<balance, deltas, paymentSettings, transactions, orders,
                   timers, applied, charged>>
    /\ UNCHANGED fulfillment

\* ------------------------------------------------------------------------
\* The fulfillment run of an order (the callback scheduled by POST /api/orders)
\* ------------------------------------------------------------------------
MinMessages == 10
\* Math.floor(Math.random() * 6) lies in 0..5: the least value, and both ends
RandomUnits == {0}
RandomEnds == {0, 5}

\* what a rejected store call throws
Thrown == { [isError |-> TRUE, message |-> "store error"] }

\* error instanceof Error ? error.message : 'Unknown error'
ErrorMessage(error) == IF error.isError THEN error.message ELSE "Unknown error"

\* a loop that stops one index early
LoopStopsEarly(i, groupCount) == i < groupCount

\* for (let i = 1; i <= groupCount; i++)
LoopContinues(i, groupCount) == i <= groupCount

\* a message loop that runs once more
MessagesOneMore(j, messageCount) == j <= messageCount

\* for (let j = 0; j < messageCount; j++)
MessagesContinue(j, messageCount) == j < messageCount

\* an insert that writes the row twice
CreateGroupTwice(o, u, i) ==
    Append(Append(groups, [orderId |-> o, userId |-> u, groupName |-> i]),
           [orderId |-> o, userId |-> u, groupName |-> i])

\* an insert that names every group by index 1
CreateGroupFirstIndex(o, u, i) ==
    Append(groups, [orderId |-> o, userId |-> u, groupName |-> 1])

\* createGroup: insert one row; the name is the pattern with the index in it
CreateGroup(o, u, i) ==
    Append(groups, [orderId |-> o, userId |-> u, groupName |-> i])

\* createAutoMessage: insert one row for the group
CreateAutoMessage(g) == [autoMessages EXCEPT ![g] = @ + 1]

\* the number of Group rows of an order
GroupsOfOrder(o) == {g \in DOMAIN groups : groups[g].orderId = o}

\* a timer that stays scheduled after it has fired
TimersKeep(o) == timers

\* the timer of setTimeout fires once and is gone
TimersAfterFiring(o) == timers \ {o}

\* the timer fires: the callback enters its loop at index 1
RunTimer(o) ==
    /\ o \in timers
    /\ started[o] < MaxStarts
    /\ timers' = TimersAfterFiring(o)
    /\ started' = [started EXCEPT ![o] = @ + 1]
    /\ run' = [run EXCEPT ![o] =
                  [NoRun EXCEPT !.i = 1,
                                !.pc = IF LoopContinues(1, orders[o].groupCount)
                                       THEN "createGroup" ELSE "completed"]]
    /\ UNCHANGED <<store, deltas, req, applied, charged, groups, autoMessages>>
    /\ UNCHANGED telegram

\* createGroup for index i; then the number of messages is drawn
RunCreateGroup(o, r) ==
    /\ run[o].pc = "createGroup"
    /\ \E storeFails \in BOOLEAN, error \in Thrown :
          IF storeFails
          THEN /\ run' = [run EXCEPT ![o].pc = "catch", ![o].error = error]
               /\ UNCHANGED groups
          ELSE /\ Len(groups) < Cardinality(GroupIds)
               /\ groups' = CreateGroup(o, orders[o].userId, run[o].i)
               /\ LET messageCount == MinMessages + r
                  IN  run' = [run EXCEPT ![o].group = Len(groups) + 1,
                                         ![o].messageCount = messageCount,
                                         ![o].j = 0,
                                         ![o].pc = IF MessagesContinue(0, messageCount)
                                                   THEN "createAutoMessage"
                                                   ELSE "updateOrderStatus"]
    /\ UNCHANGED <<store, deltas, timers, req, applied, charged, autoMessages, started>>
    /\ UNCHANGED telegram

\* createAutoMessage for message j of the group
RunCreateAutoMessage(o) ==
    /\ run[o].pc = "createAutoMessage"
    /\ \E storeFails \in BOOLEAN, error \in Thrown :
          IF storeFails
          THEN /\ run' = [run EXCEPT ![o].pc = "catch", ![o].error = error]
               /\ UNCHANGED autoMessages
          ELSE /\ autoMessages' = CreateAutoMessage(run[o].group)
               /\ run' = [run EXCEPT ![o].j = @ + 1,
                                     ![o].pc = IF MessagesContinue(run[o].j + 1,
                                                                  run[o].messageCount)
                                               THEN "createAutoMessage"
                                               ELSE "updateOrderStatus"]
    /\ UNCHANGED <<store, deltas, timers, req, applied, charged, groups, started>>
    /\ UNCHANGED telegram

\* updateOrderStatus(order.id, 'processing', i), then the next index
RunUpdateOrderStatus(o) ==
    /\ run[o].pc = "updateOrderStatus"
    /\ \E storeFails \in BOOLEAN, error \in Thrown :
          IF storeFails
          THEN /\ run' = [run EXCEPT ![o].pc = "catch", ![o].error = error]
               /\ UNCHANGED orders
          ELSE /\ orders' = UpdateOrderStatus(o, "processing", run[o].i, NULL)
               /\ run' = [run EXCEPT ![o].i = @ + 1,
                                     ![o].pc = IF LoopContinues(run[o].i + 1,
                                                                orders[o].groupCount)
                                               THEN "createGroup" ELSE "completed"]
    /\ UNCHANGED <<balance, deltas, telegramConnections, paymentSettings, transactions,
                   timers, req, applied, charged, groups, autoMessages, started>>
    /\ UNCHANGED telegram

\* after the loop: updateOrderStatus(order.id, 'completed', groupCount)
RunCompleted(o) ==
    /\ run[o].pc = "completed"
    /\ \E storeFails \in BOOLEAN, error \in Thrown :
          IF storeFails
          THEN /\ run' = [run EXCEPT ![o].pc = "catch", ![o].error = error]
               /\ UNCHANGED orders
          ELSE /\ orders' = UpdateOrderStatus(o, "completed", orders[o].groupCount, NULL)
               /\ run' = [run EXCEPT ![o].pc = "end"]
    /\ UNCHANGED <<balance, deltas, telegramConnections, paymentSettings, transactions,
                   timers, req, applied, charged, groups, autoMessages, started>>
    /\ UNCHANGED telegram

\* a catch block that also gives the cost of the order back
RunCatchRefunds(o) ==
    /\ run[o].pc = "catch"
    /\ orders' = UpdateOrderStatus(o, "failed", Undefined, ErrorMessage(run[o].error))
    /\ balance' = [balance EXCEPT ![orders[o].userId] = @ + orders[o].cost]
    /\ UNCHANGED deltas
    /\ run' = [run EXCEPT ![o].pc = "end"]
    /\ UNCHANGED <<telegramConnections, paymentSettings, transactions,
                   timers, req, applied, charged, groups, autoMessages, started>>
    /\ UNCHANGED telegram

\* the catch block: updateOrderStatus(order.id, 'failed', undefined, message);
\* when this call is rejected too, the rejection leaves the callback
RunCatch(o) ==
    /\ run[o].pc = "catch"
    /\ \E storeFails \in BOOLEAN :
          IF storeFails
          THEN /\ run' = [run EXCEPT ![o].pc = "rejected"]
               /\ UNCHANGED orders
          ELSE /\ orders' = UpdateOrderStatus(o, "failed", Undefined,
                                              ErrorMessage(run[o].error))
               /\ run' = [run EXCEPT ![o].pc = "end"]
    /\ UNCHANGED <<balance, deltas, telegramConnections, paymentSettings, transactions,
                   timers, req, applied, charged, groups, autoMessages, started>>
    /\ UNCHANGED telegram

\* a step of the fulfillment run of order o, the random numbers drawn from
\* units
RunWith(o, units) ==
    \/ RunTimer(o)
    \/ \E r \in units : RunCreateGroup(o, r)
    \/ RunCreateAutoMessage(o)
    \/ RunUpdateOrderStatus(o)
    \/ RunCompleted(o)
    \/ RunCatch(o)

Run(o) == RunWith(o, RandomUnits)

\* ------------------------------------------------------------------------
\* The Telegram gateway: createTelegramGroupsWithSession
\* ------------------------------------------------------------------------
\* the lists of group names a call is made with
NameLists == { SubSeq(<<"n1", "n2", "n3">>, 1, n) : n \in 1..MaxNames }

\* updates.chats?.[0]?.id?.toString() || "": an id, or "" without a chat
ChannelIds == {"id", ""}
\* (inviteResult as any).link || "": a link, or "" without one
InviteLinks == {"link", ""}

\* the loop over groupNames goes to the next name, or leaves the loop
NextName(g) ==
    IF g.k + 1 <= Len(g.groupNames)
    THEN [g EXCEPT !.k = g.k + 1, !.pc = "createChannel"]
    ELSE [g EXCEPT !.k = g.k + 1, !.pc = "disconnect"]

\* the call is made: a client is built and connect() awaited
CreateTelegramGroupsWithSession(groupNames) ==
    /\ gateway.pc \in {"none", "done"}
    /\ gateway' = [NoCall EXCEPT !.pc = "connect", !.groupNames = groupNames]
    /\ UNCHANGED <<store, deltas, timers, req, applied, charged, groups, autoMessages,
                   run, started, sender, sent, sessions>>

\* client.connect(): a failure is rethrown by the outer catch; the failure
\* may come before or after the transport to Telegram was opened
GatewayConnect ==
    /\ gateway.pc = "connect"
    /\ \E fails \in BOOLEAN, opened \in BOOLEAN :
          gateway' = IF fails
                     THEN [gateway EXCEPT !.pc = "done", !.outcome = "failed",
                                          !.connected = opened,
                                          !.res = "Failed"]
                     ELSE [NextName([gateway EXCEPT !.connected = TRUE,
                                                    !.groups = <<>>])
                              EXCEPT !.outcome = "ok"]
    /\ UNCHANGED <<store, deltas, timers, req, applied, charged, groups, autoMessages,
                   run, started, sender, sent, sessions>>

\* client.invoke(CreateChannel): a failure is caught for this name only
GatewayCreateChannel ==
    /\ gateway.pc = "createChannel"
    /\ \E fails \in BOOLEAN, channelId \in ChannelIds :
          gateway' = IF fails
                     THEN [NextName(gateway) EXCEPT !.outcome = "failed"]
                     ELSE [gateway EXCEPT !.pc = "exportChatInvite",
                                          !.channelId = channelId,
                                          !.outcome = "ok"]
    /\ UNCHANGED <<store, deltas, timers, req, applied, charged, groups, autoMessages,
                   run, started, sender, sent, sessions>>

\* client.invoke(ExportChatInvite), then groups.push: a failure is caught by
\* the same catch, before the push is reached
GatewayExportChatInvite ==
    /\ gateway.pc = "exportChatInvite"
    /\ \E fails \in BOOLEAN, inviteLink \in InviteLinks :
          gateway' = IF fails
                     THEN [NextName(gateway) EXCEPT !.outcome = "failed"]
                     ELSE [gateway EXCEPT
                              !.pc = "delay",
                              !.outcome = "ok",
                              !.groups = Append(@,
                                  [name |-> gateway.groupNames[gateway.k],
                                   telegramGroupId |-> gateway.channelId,
                                   inviteLink |-> inviteLink])]
    /\ UNCHANGED <<store, deltas, timers, req, applied, charged, groups, autoMessages,
                   run, started, sender, sent, sessions>>

\* the delay of one second between group creations has passed
GatewayDelay ==
    /\ gateway.pc = "delay"
    /\ gateway' = NextName(gateway)
    /\ UNCHANGED <<store, deltas, timers, req, applied, charged, groups, autoMessages,
                   run, started, sender, sent, sessions>>

\* client.disconnect(), then the groups are returned
GatewayDisconnect ==
    /\ gateway.pc = "disconnect"
    /\ \E fails \in BOOLEAN :
          gateway' = IF fails
                     THEN [gateway EXCEPT !.pc = "done", !.outcome = "failed",
                                          !.res = "Failed"]
                     ELSE [gateway EXCEPT !.pc = "done", !.outcome = "ok",
                                          !.connected = FALSE, !.res = "ok"]
    /\ UNCHANGED <<store, deltas, timers, req, applied, charged, groups, autoMessages,
                   run, started, sender, sent, sessions>>

\* ------------------------------------------------------------------------
\* GET /api/stats: getUserStats
\* ------------------------------------------------------------------------
\* user?.balance || 0: the balance of the account, 0 without an account
BalanceOrZero(u) == IF u \in DOMAIN balance THEN balance[u] ELSE 0

\* orders read without the filter on the account
OrdersOfAnyUser(u) == DOMAIN orders

\* the orders with userId = u
UserOrders(u) == {o \in DOMAIN orders : orders[o].userId = u}

\* o.status === 'pending' || o.status === 'processing'
ActiveOrdersCount(u) ==
    Cardinality({o \in UserOrders(u) :
                    orders[o].status = "pending" \/ orders[o].status = "processing"})

\* o.status === 'completed'
CompletedOrdersCount(u) ==
    Cardinality({o \in UserOrders(u) : orders[o].status = "completed"})

\* the number of group rows with userId = u
TotalGroups(u) == Cardinality({g \in DOMAIN groups : groups[g].userId = u})

\* the request arrives and the account is read
GetStats(p, u) ==
    /\ Free(p)
    /\ \E storeFails \in BOOLEAN :
          req' = [req EXCEPT ![p] =
              IF storeFails
              THEN [Idle EXCEPT !.op = "stats", !.pc = "done", !.user = u,
                                !.res = "Failed"]
              ELSE [Idle EXCEPT !.op = "stats", !.user = u,
                                !.pc = "getUserStats.selectOrders",
                                !.stats = [NoStats EXCEPT
                                              !.balance = BalanceOrZero(u)]]]
    /\ UNCHANGED <<store, deltas, timers, applied, charged>>
    /\ UNCHANGED fulfillment

\* the orders of the account are read and counted by status
GetUserStatsSelectOrders(p) ==
    /\ req[p].pc = "getUserStats.selectOrders"
    /\ \E storeFails \in BOOLEAN :
          req' = [req EXCEPT ![p] =
              IF storeFails
              THEN [Idle EXCEPT !.op = "stats", !.pc = "done",
                                !.user = req[p].user, !.res = "Failed"]
              ELSE [@ EXCEPT !.pc = "getUserStats.countGroups",
                             !.stats = [@ EXCEPT
                                 !.activeOrders = ActiveOrdersCount(req[p].user),
                                 !.completedOrders =
                                     CompletedOrdersCount(req[p].user)]]]
    /\ UNCHANGED <<store, deltas, timers, applied, charged>>
    /\ UNCHANGED fulfillment

\* the group rows of the account are counted and the stats are sent
GetUserStatsCountGroups(p) ==
    /\ req[p].pc = "getUserStats.countGroups"
    /\ \E storeFails \in BOOLEAN :
          req' = [req EXCEPT ![p] =
              IF storeFails
              THEN [Idle EXCEPT !.op = "stats", !.pc = "done",
                                !.user = req[p].user, !.res = "Failed"]
              ELSE [Idle EXCEPT !.op = "stats", !.pc = "done",
                                !.user = req[p].user, !.res = "ok",
                                !.stats = [req[p].stats EXCEPT
                                    !.totalGroups = TotalGroups(req[p].user)]]]
    /\ UNCHANGED <<store, deltas, timers, applied, charged>>
    /\ UNCHANGED fulfillment

\* ------------------------------------------------------------------------
\* sendAutoMessages
\* ------------------------------------------------------------------------
\* the group a call sends to
SendGroupIds == {1}
\* the numbers of messages handed to a call
MessageCounts == 1..MaxMessages

\* the loop over messages goes to the next message, or leaves the loop
NextMessage(s) ==
    IF s.m + 1 <= s.messages
    THEN [s EXCEPT !.m = s.m + 1, !.pc = "sendMessage"]
    ELSE [s EXCEPT !.m = s.m + 1, !.pc = "disconnect"]

\* the call is made: a client is built and connect() awaited
SendAutoMessages(groupId, messages) ==
    /\ sender.pc \in {"none", "done"}
    /\ sent[groupId] + messages <= MaxSent
    /\ sender' = [NoSend EXCEPT !.pc = "connect", !.groupId = groupId,
                                !.messages = messages]
    /\ UNCHANGED <<store, deltas, timers, req, applied, charged, groups, autoMessages,
                   run, started, gateway, sent, sessions>>

\* client.connect(): a failure is rethrown by the outer catch; the failure
\* may come before or after the transport to Telegram was opened
SenderConnect ==
    /\ sender.pc = "connect"
    /\ \E fails \in BOOLEAN, opened \in BOOLEAN :
          sender' = IF fails
                    THEN [sender EXCEPT !.pc = "done", !.outcome = "failed",
                                        !.connected = opened,
                                        !.res = "Failed"]
                    ELSE [NextMessage([sender EXCEPT !.connected = TRUE])
                             EXCEPT !.outcome = "ok"]
    /\ UNCHANGED <<store, deltas, timers, req, applied, charged, groups, autoMessages,
                   run, started, gateway, sent, sessions>>

\* client.sendMessage(groupId, {message}): a failure is caught for this
\* message only; nothing is written to the store either way
SenderSendMessage ==
    /\ sender.pc = "sendMessage"
    /\ \E fails \in BOOLEAN :
          IF fails
          THEN /\ sender' = [NextMessage(sender) EXCEPT !.outcome = "failed"]
               /\ UNCHANGED sent
          ELSE /\ sender' = [sender EXCEPT !.pc = "delay", !.outcome = "ok"]
               /\ sent' = [sent EXCEPT ![sender.groupId] = @ + 1]
    /\ UNCHANGED <<store, deltas, timers, req, applied, charged, groups, autoMessages,
                   run, started, gateway, sessions>>

\* the delay of two seconds between messages has passed
SenderDelay ==
    /\ sender.pc = "delay"
    /\ sender' = NextMessage(sender)
    /\ UNCHANGED <<store, deltas, timers, req, applied, charged, groups, autoMessages,
                   run, started, gateway, sent, sessions>>

\* client.disconnect(), then the call returns
SenderDisconnect ==
    /\ sender.pc = "disconnect"
    /\ \E fails \in BOOLEAN :
          sender' = IF fails
                    THEN [sender EXCEPT !.pc = "done", !.outcome = "failed",
                                        !.res = "Failed"]
                    ELSE [sender EXCEPT !.pc = "done", !.outcome = "ok",
                                        !.connected = FALSE, !.res = "ok"]
    /\ UNCHANGED <<store, deltas, timers, req, applied, charged, groups, autoMessages,
                   run, started, gateway, sent, sessions>>

\* ------------------------------------------------------------------------
\* sendTelegramOTP, its expiry timer, and verifyTelegramOTP
\* ------------------------------------------------------------------------
\* the clients that are connected to Telegram
ConnectedStates == {"connected", "signedIn"}

\* the clients built so far
Built == {c \in ClientIds : clients[c] # "unused"}

\* session.client.disconnect() of the entry stored under key, if there is
\* one: the client of that entry is closed
DisconnectEntry(key) ==
    IF activeSessions[key] # 0
    THEN [clients EXCEPT ![activeSessions[key]] = "disconnected"]
    ELSE clients

\* activeSessions.delete(key)
DeleteEntry(key) == [activeSessions EXCEPT ![key] = 0]

\* activeSessions.set(key, {client, phoneCodeHash})
SetEntry(key, client) == [activeSessions EXCEPT ![key] = client]

\* the call is made: a new client is built and connect() awaited
SendTelegramOTP(key) ==
    /\ sendCall.pc \in {"none", "done"}
    /\ Cardinality(Built) < MaxClients
    /\ LET client == Cardinality(Built) + 1
       IN  /\ clients' = [clients EXCEPT ![client] = "new"]
           /\ sendCall' = [NoOtpCall EXCEPT !.pc = "connect", !.key = key,
                                            !.client = client]
    /\ UNCHANGED <<store, deltas, timers, req, applied, charged, groups, autoMessages,
                   run, started, gateway, sender, sent, activeSessions,
                   otpTimers, verifyCall>>

\* client.connect(): a failure is rethrown by the catch; the failure may
\* come before or after the transport to Telegram was opened
SendOtpConnect ==
    /\ sendCall.pc = "connect"
    /\ \E fails \in BOOLEAN, opened \in BOOLEAN :
          IF fails
          THEN /\ sendCall' = [sendCall EXCEPT !.pc = "done", !.res = "Failed"]
               /\ clients' = [clients EXCEPT ![sendCall.client] =
                                 IF opened THEN "connected" ELSE "new"]
          ELSE /\ sendCall' = [sendCall EXCEPT !.pc = "sendCode"]
               /\ clients' = [clients EXCEPT ![sendCall.client] = "connected"]
    /\ UNCHANGED <<store, deltas, timers, req, applied, charged, groups, autoMessages,
                   run, started, gateway, sender, sent, activeSessions,
                   otpTimers, verifyCall>>

\* client.sendCode(): a failure is rethrown by the catch; otherwise the
\* entry is stored under the key and its expiry timer is set
SendOtpSendCode ==
    /\ sendCall.pc = "sendCode"
    /\ \E fails \in BOOLEAN :
          IF fails
          THEN /\ sendCall' = [sendCall EXCEPT !.pc = "done", !.res = "Failed"]
               /\ UNCHANGED <<activeSessions, otpTimers>>
          ELSE /\ sendCall' = [sendCall EXCEPT !.pc = "done", !.res = "ok"]
               /\ activeSessions' = SetEntry(sendCall.key, sendCall.client)
               /\ otpTimers' = Append(otpTimers,
                                      [sessionKey |-> sendCall.key,
                                       client |-> sendCall.client])
    /\ UNCHANGED <<store, deltas, timers, req, applied, charged, groups, autoMessages,
                   run, started, gateway, sender, sent, clients, verifyCall>>

\* the oldest expiry timer fires, five minutes after it was set: the entry
\* now stored under its key, if any, is disconnected and deleted
OtpTimer ==
    /\ otpTimers # <<>>
    /\ LET sessionKey == Head(otpTimers).sessionKey
       IN  /\ clients' = DisconnectEntry(sessionKey)
           /\ activeSessions' = DeleteEntry(sessionKey)
    /\ otpTimers' = Tail(otpTimers)
    /\ UNCHANGED <<store, deltas, timers, req, applied, charged, groups, autoMessages,
                   run, started, gateway, sender, sent, sendCall, verifyCall>>

\* the call is made: without an entry under the key it throws, and the catch
\* finds no entry either; with one, signInUser is awaited on its client
VerifyTelegramOTP(key) ==
    /\ verifyCall.pc \in {"none", "done"}
    /\ verifyCall' = IF activeSessions[key] = 0
                     THEN [NoOtpCall EXCEPT !.pc = "done", !.key = key,
                                            !.res = "Failed"]
                     ELSE [NoOtpCall EXCEPT !.pc = "signInUser", !.key = key,
                                            !.client = activeSessions[key]]
    /\ UNCHANGED <<store, deltas, timers, req, applied, charged, groups, autoMessages,
                   run, started, gateway, sender, sent, activeSessions,
                   clients, otpTimers, sendCall>>

\* client.signInUser() on the client taken at the call: on success the
\* session string is saved and the key deleted; on failure the catch
\* disconnects and deletes the entry stored under the key at that time
VerifySignInUser ==
    /\ verifyCall.pc = "signInUser"
    /\ \E fails \in BOOLEAN :
          IF fails
          THEN /\ verifyCall' = [verifyCall EXCEPT !.pc = "done",
                                                   !.res = "Failed"]
               /\ clients' = DisconnectEntry(verifyCall.key)
               /\ activeSessions' = DeleteEntry(verifyCall.key)
          ELSE /\ clients[verifyCall.client] = "connected"
               /\ verifyCall' = [verifyCall EXCEPT !.pc = "done", !.res = "ok"]
               /\ clients' = [clients EXCEPT ![verifyCall.client] = "signedIn"]
               /\ activeSessions' = DeleteEntry(verifyCall.key)
    /\ UNCHANGED <<store, deltas, timers, req, applied, charged, groups, autoMessages,
                   run, started, gateway, sender, sent, otpTimers, sendCall>>

\* ------------------------------------------------------------------------
\* Specifications
\* ------------------------------------------------------------------------
\* an order request arrives at a free handler slot
ArriveOrder(p) ==
    \E u \in Users, groupCount \in GroupCounts, cost \in CostStrings :
        PostOrders(p, u, groupCount, cost)

\* a ledger request arrives
ArriveLedger(p) ==
    \/ \E u \in Users, body \in TransactionBodies :
          PostTransactions(p, u, body.amount, body.type, body.status)
    \/ \E t \in TxIds : PostAdminApprovePayment(p, t)
    \/ \E t \in TxIds, txHash \in TxHashes : PostWebhookPaymentConfirm(p, t, txHash)

\* an administration or connection request arrives
ArriveSetup(p) ==
    \/ \E u \in Users, amount \in AmountStrings : PostAdminAddBalance(p, u, amount)
    \/ \E price \in PriceStrings, maxGroups \in MaxGroupsInputs :
          PostAdminPaymentSettings(p, price, maxGroups)
    \/ \E u \in Users : PostTelegramConnect(p, u)
    \/ \E u \in Users, id \in 1..MaxConns : DeleteTelegramConnections(p, u, id)

\* a request in flight resumes after an awaited store call
ResumeOrder(p) ==
    \/ PostOrdersGetUser(p)
    \/ PostOrdersGetActiveTelegramConnection(p)
    \/ PostOrdersUpdateUserBalance(p)
    \/ PostOrdersCreateTransaction(p)
    \/ PostOrdersCreateOrder(p)
    \/ PostOrdersUpdateOrderStatus(p)

ResumeLedger(p) ==
    \/ AdminApprovePaymentUpdateTransactionStatus(p)
    \/ WebhookUpdateUserBalance(p)

ResumeSetup(p) ==
    \/ AdminAddBalanceCreateTransaction(p)
    \/ DeleteTelegramConnection(p)

\* every handler, requests taken one at a time by a single handler slot
Next ==
    \/ ArriveOrder("p1") \/ ResumeOrder("p1")
    \/ ArriveLedger("p1") \/ ResumeLedger("p1")
    \/ ArriveSetup("p1") \/ ResumeSetup("p1")

Spec == Init /\ [][Next]_vars

\* order admissions taken one at a time, with the requests that fund the
\* account, connect it and configure the limits
NextAdmission ==
    \/ ArriveOrder("p1") \/ ResumeOrder("p1")
    \/ ArriveSetup("p1") \/ ResumeSetup("p1")

SpecAdmission == Init /\ [][NextAdmission]_vars

\* order admissions that overlap, interleaving at every awaited store call;
\* the administrator only adds funds
NextOrders ==
    \E p \in Procs :
        \/ ArriveOrder(p) \/ ResumeOrder(p)
        \/ \E u \in Users, amount \in FundingStrings : PostAdminAddBalance(p, u, amount)
        \/ AdminAddBalanceCreateTransaction(p)
        \/ \E u \in Users : PostTelegramConnect(p, u)

SpecOrders == Init /\ [][NextOrders]_vars

\* ledger requests that overlap, interleaving at every awaited store call
NextLedger ==
    \E p \in Procs : ArriveLedger(p) \/ ResumeLedger(p)

SpecLedger == Init /\ [][NextLedger]_vars

\* orders admitted one at a time whose fulfillment runs interleave with each
\* other and with the requests, at every awaited store call
RunGroupCounts == {1, 2}
RunCostStrings == { <<"0">>, <<"0", ".", "1">> }

ArriveRunOrder(p) ==
    \E u \in Users, groupCount \in RunGroupCounts, cost \in RunCostStrings :
        PostOrders(p, u, groupCount, cost)

ArriveFunding(p) ==
    \/ \E u \in Users, amount \in FundingStrings : PostAdminAddBalance(p, u, amount)
    \/ \E u \in Users : PostTelegramConnect(p, u)

NextFulfillment ==
    \/ ArriveRunOrder("p1") \/ ResumeOrder("p1")
    \/ ArriveFunding("p1") \/ AdminAddBalanceCreateTransaction("p1")
    \/ \E o \in OrderIds : Run(o)

SpecFulfillment == Init /\ [][NextFulfillment]_vars

\* admissions and runs under the scheduling of the event loop: a request
\* that can resume and a callback that can take its next step are not
\* postponed forever
ArriveScheduledOrder(p) ==
    \E u \in Users : PostOrders(p, u, 1, <<"0">>)

NextScheduled ==
    \/ ArriveScheduledOrder("p1") \/ ResumeOrder("p1")
    \/ \E u \in Users : PostTelegramConnect("p1", u)
    \/ \E o \in OrderIds : Run(o)

SpecScheduled ==
    /\ Init /\ [][NextScheduled]_vars
    /\ WF_vars(ResumeOrder("p1"))
    /\ \A o \in OrderIds : WF_vars(Run(o))

\* stats requests in a second handler slot, between the steps of admissions
\* and runs, on a store that may hold the rows of another account: one
\* completed order with its group, or one failed order
OtherAccount == "u2"
OtherOrder(status) ==
    [userId |-> OtherAccount, groupCount |-> 1, cost |-> 0, status |-> status,
     groupsCreated |-> IF status = "completed" THEN 1 ELSE 0,
     errorMessage |-> IF status = "failed" THEN "store error" ELSE NULL,
     completedAt |-> (status = "completed")]
OtherGroup == [orderId |-> 1, userId |-> OtherAccount, groupName |-> 1]

InitStats ==
    /\ balance = [u \in Users |-> 0]
    /\ telegramConnections = {}
    /\ paymentSettings = {}
    /\ transactions = <<>>
    /\ \/ orders = <<>> /\ groups = <<>>
       \/ orders = <<OtherOrder("completed")>> /\ groups = <<OtherGroup>>
       \/ orders = <<OtherOrder("failed")>> /\ groups = <<>>
    /\ timers = {}
    /\ req = [p \in Procs |-> Idle]
    /\ applied = [t \in TxIds |-> 0]
    /\ charged = [u \in Users |-> [n |-> 0, sum |-> 0]]
    /\ deltas = [u \in Users |-> 0]
    /\ autoMessages = [g \in GroupIds |->
                          IF g \in DOMAIN groups THEN MinMessages ELSE 0]
    /\ run = [o \in OrderIds |-> NoRun]
    /\ started = [o \in OrderIds |-> 0]
    /\ gateway = NoCall
    /\ sender = NoSend
    /\ sent = [g \in GroupIds |-> 0]
    /\ activeSessions = [k \in SessionKeys |-> 0]
    /\ clients = [c \in ClientIds |-> "unused"]
    /\ otpTimers = <<>>
    /\ sendCall = NoOtpCall
    /\ verifyCall = NoOtpCall

ResumeStats(p) ==
    \/ GetUserStatsSelectOrders(p)
    \/ GetUserStatsCountGroups(p)

NextStats ==
    \/ ArriveScheduledOrder("p1") \/ ResumeOrder("p1")
    \/ ArriveFunding("p1") \/ AdminAddBalanceCreateTransaction("p1")
    \/ \E o \in OrderIds : Run(o)
    \/ \E u \in Users : GetStats("p2", u)
    \/ ResumeStats("p2")

SpecStats == InitStats /\ [][NextStats]_vars

\* calls of updateOrderStatus with every combination of arguments, on order
\* rows as the admission and the runs leave them
OrderRows ==
    { [userId |-> "u1", groupCount |-> 2, cost |-> 0, status |-> "pending",
       groupsCreated |-> 0, errorMessage |-> NULL, completedAt |-> FALSE],
      [userId |-> "u1", groupCount |-> 2, cost |-> 0, status |-> "processing",
       groupsCreated |-> 1, errorMessage |-> NULL, completedAt |-> FALSE],
      [userId |-> "u1", groupCount |-> 2, cost |-> 0, status |-> "completed",
       groupsCreated |-> 2, errorMessage |-> NULL, completedAt |-> TRUE],
      [userId |-> "u1", groupCount |-> 2, cost |-> 0, status |-> "failed",
       groupsCreated |-> 1, errorMessage |-> "store error", completedAt |-> FALSE] }
StatusArgs == {"processing", "completed", "failed"}
GroupsCreatedArgs == {Undefined, 0, 2}
ErrorMessageArgs == {NULL, "", "Unknown error"}

InitOrderStatus ==
    /\ balance = [u \in Users |-> 0]
    /\ telegramConnections = {}
    /\ paymentSettings = {}
    /\ transactions = <<>>
    /\ \E r1, r2 \in OrderRows : orders = <<r1, r2>>
    /\ timers = {}
    /\ req = [p \in Procs |-> Idle]
    /\ applied = [t \in TxIds |-> 0]
    /\ charged = [u \in Users |-> [n |-> 0, sum |-> 0]]
    /\ deltas = [u \in Users |-> 0]
    /\ groups = <<>>
    /\ autoMessages = [g \in GroupIds |-> 0]
    /\ run = [o \in OrderIds |-> NoRun]
    /\ started = [o \in OrderIds |-> 0]
    /\ gateway = NoCall
    /\ sender = NoSend
    /\ sent = [g \in GroupIds |-> 0]
    /\ activeSessions = [k \in SessionKeys |-> 0]
    /\ clients = [c \in ClientIds |-> "unused"]
    /\ otpTimers = <<>>
    /\ sendCall = NoOtpCall
    /\ verifyCall = NoOtpCall

\* storage.updateOrderStatus(orderId, status, groupsCreated, errorMessage)
SetOrderStatus(p, o, status, groupsCreated, errorMessage) ==
    /\ o \in DOMAIN orders
    /\ orders' = UpdateOrderStatus(o, status, groupsCreated, errorMessage)
    /\ req' = [req EXCEPT ![p] =
                  [Idle EXCEPT !.op = "setOrderStatus", !.pc = "done", !.order = o,
                               !.args = [status |-> status,
                                         groupsCreated |-> groupsCreated,
                                         errorMessage |-> errorMessage],
                               !.res = "ok"]]
    /\ UNCHANGED <<balance, deltas, telegramConnections, paymentSettings, transactions,
                   timers, applied, charged>>
    /\ UNCHANGED fulfillment

NextOrderStatus ==
    \E o \in OrderIds, status \in StatusArgs, groupsCreated \in GroupsCreatedArgs,
       errorMessage \in ErrorMessageArgs :
        SetOrderStatus("p1", o, status, groupsCreated, errorMessage)

SpecOrderStatus == InitOrderStatus /\ [][NextOrderStatus]_vars

\* calls of the gateway, one after the other
NextGateway ==
    \/ \E groupNames \in NameLists : CreateTelegramGroupsWithSession(groupNames)
    \/ GatewayConnect
    \/ GatewayCreateChannel
    \/ GatewayExportChatInvite
    \/ GatewayDelay
    \/ GatewayDisconnect
    \/ \E groupId \in SendGroupIds, messages \in MessageCounts :
          SendAutoMessages(groupId, messages)
    \/ SenderConnect
    \/ SenderSendMessage
    \/ SenderDelay
    \/ SenderDisconnect

SpecGateway == Init /\ [][NextGateway]_vars

\* requests for a verification code, their expiry, and sign-ins
NextSessions ==
    \/ \E key \in SessionKeys : SendTelegramOTP(key)
    \/ SendOtpConnect
    \/ SendOtpSendCode
    \/ OtpTimer
    \/ \E key \in SessionKeys : VerifyTelegramOTP(key)
    \/ VerifySignInUser

SpecSessions == Init /\ [][NextSessions]_vars

\* orders that cost nothing and their runs, each group drawing the least or
\* the greatest number of messages
ArriveFreeOrder(p) ==
    \E u \in Users, groupCount \in RunGroupCounts : PostOrders(p, u, groupCount, <<"0">>)

NextMessages ==
    \/ ArriveFreeOrder("p1") \/ ResumeOrder("p1")
    \/ \E u \in Users : PostTelegramConnect("p1", u)
    \/ \E o \in OrderIds : RunWith(o, RandomEnds)

SpecMessages == Init /\ [][NextMessages]_vars

\* ------------------------------------------------------------------------
\* Properties
\* ------------------------------------------------------------------------
\* the price per hundred groups in effect: the setting, or 2.00 without one
PriceInEffect ==
    IF paymentSettings = {} THEN DefaultPricePerHundredGroups
    ELSE (CHOOSE r \in paymentSettings : TRUE).pricePerHundredGroups

\* the order debit rows of an account
OrderDebits(u) ==
    {t \in DOMAIN transactions :
        /\ transactions[t].userId = u
        /\ transactions[t].type = "debit"
        /\ transactions[t].description = "order"}

RECURSIVE SumAmounts(_)
SumAmounts(ts) ==
    IF ts = {} THEN 0
    ELSE LET t == CHOOSE x \in ts : TRUE
         IN  transactions[t].amount + SumAmounts(ts \ {t})

AdmissionInProgress == \E p \in Procs : req[p].op = "order" /\ ~Free(p)

\* C1: over requests that do not overlap, the balance of every account is
\* at least 0 in every reachable state.
C1_BalanceNeverNegative == \A u \in Users : balance[u] >= 0

\* C2: when order admissions of one account overlap, the debit of an
\* admission never takes a balance that is at least 0 below 0 (so of two
\* admissions the balance covers only one at a time, at most one debits).
C2_NoOverdraftByAdmission ==
    [][\A u \in Users :
          (balance[u] >= 0 /\ charged'[u].n = charged[u].n + 1) => balance'[u] >= 0]_vars

\* C3: approveCredit on a pending credit adds the amount once and leaves the
\* row completed; a further approveCredit, finding the row completed, changes
\* neither the balance nor the row and returns it completed.
C3_ApproveTwice ==
    [][\A p \in Procs :
          /\ (/\ Free(p) /\ req'[p] # req[p] /\ req'[p].op = "approve"
              /\ req'[p].tx \in DOMAIN transactions
              /\ transactions[req'[p].tx].type = "credit")
             => LET t == req'[p].tx
                    u == transactions[t].userId
                IN  IF transactions[t].status = "pending"
                    THEN /\ balance'[u] = balance[u] + transactions[t].amount
                         /\ applied'[t] = applied[t] + 1
                    ELSE /\ balance' = balance
                         /\ transactions' = transactions
                         /\ applied' = applied
                         /\ req'[p].pc = "done"
                         /\ req'[p].res = "ok"
                         /\ req'[p].status = "completed"
          /\ (/\ req[p].op = "approve" /\ ~Free(p) /\ req'[p] # req[p])
             => /\ balance' = balance
                /\ applied' = applied
                /\ transactions'[req[p].tx].status = "completed"
                /\ req'[p].pc = "done"
                /\ req'[p].status = "completed"]_vars

\* C3 witness: a second approval has returned: it found the credit already
\* completed by an approval (no confirmation touched the row) and the amount
\* has been added once
C3_Witness ==
    \E p \in Procs :
        /\ req[p].op = "approve" /\ req[p].pc = "done" /\ req[p].res = "ok"
        /\ req[p].found = "completed"
        /\ transactions[req[p].tx].type = "credit"
        /\ transactions[req[p].tx].description = "user"
        /\ transactions[req[p].tx].txHash = NULL
        /\ applied[req[p].tx] = 1

\* C4: over any sequence of approvals and payment confirmations, the amount
\* of a credit transaction is added to the balance at most once.
C4_AppliedAtMostOnce == \A t \in TxIds : applied[t] <= 1

\* C5: when approveCredit calls on one pending credit overlap, an approval
\* adds the amount only if no approval has added it before.
C5_ApproveAtomic ==
    [][\A p \in Procs :
          (/\ Free(p) /\ req'[p] # req[p] /\ req'[p].op = "approve"
           /\ req'[p].tx \in DOMAIN transactions
           /\ applied'[req'[p].tx] # applied[req'[p].tx])
          => applied[req'[p].tx] = 0]_vars

\* C6: whenever no admission is in progress, the decrements made by
\* admissions are matched one to one by completed order debit rows of the
\* same amounts, and no order debit row is pending.
C6_DebitMatchesTransaction ==
    ~AdmissionInProgress =>
        \A u \in Users :
            /\ Cardinality(OrderDebits(u)) = charged[u].n
            /\ SumAmounts(OrderDebits(u)) = charged[u].sum
            /\ \A t \in OrderDebits(u) : transactions[t].status = "completed"

\* C7: an admission that has passed the limit, balance and connection checks
\* ends with the order returned: the order row is processing with
\* groupsCreated 0, and orders, order debit rows and decrements agree in
\* number and amount.
C7_AdmissionEffects ==
    \A p \in Procs :
        (req[p].op = "order" /\ req[p].pc = "done" /\ req[p].res \in {"ok", "Failed"})
        => /\ req[p].res = "ok"
           /\ req[p].order \in DOMAIN orders
           /\ orders[req[p].order].status = "processing"
           /\ orders[req[p].order].groupsCreated = 0
           /\ \A u \in Users :
                 /\ charged[u].n = Cardinality(OrderDebits(u))
                 /\ charged[u].n = Cardinality({o \in DOMAIN orders : orders[o].userId = u})
                 /\ charged[u].sum = SumAmounts(OrderDebits(u))

\* C8: the amount debited by an admission is groupCount x
\* pricePerHundredGroups / 100 for the price in effect.
C8_CostDerivedFromPrice ==
    [][\A p \in Procs :
          (req[p].pc = "updateUserBalance" /\ req'[p].pc = "createTransaction")
          => balance[req[p].user] - balance'[req[p].user]
                 = CalculateCost(req[p].groupCount, PriceInEffect)]_vars

\* C9: an admission whose balance is below the cost is rejected with
\* InsufficientBalance and changes no balance, transaction or order; one
\* whose balance equals the cost is not rejected by this check.
C9_InsufficientBalance ==
    [][\A p \in Procs :
          (req[p].pc = "getUser" /\ req'[p] # req[p] /\ ~ParseFloat(req[p].cost).nan)
          => LET cost == ParseFloat(req[p].cost).v
                 bal  == balance[req[p].user]
             IN  /\ bal < cost =>
                       /\ req'[p].pc = "done"
                       /\ req'[p].res = "InsufficientBalance"
                       /\ UNCHANGED <<balance, transactions, orders>>
                 /\ bal = cost => req'[p].res # "InsufficientBalance"
                 /\ bal > cost => req'[p].res # "InsufficientBalance"]_vars

\* C9 witness: an admission was rejected for its balance
C9_Witness ==
    \E p \in Procs : req[p].op = "order" /\ req[p].pc = "done"
                     /\ req[p].res = "InsufficientBalance"

\* C10: an admission whose group count exceeds the maximum in effect (the
\* setting, or 10 without one) is rejected with LimitExceeded and changes no
\* balance, transaction or order; a count equal to the maximum is not
\* rejected by this check.
C10_LimitExceeded ==
    [][\A p \in Procs :
          (Free(p) /\ req'[p] # req[p] /\ req'[p].op = "order")
          => LET n   == req'[p].groupCount
                 max == IF paymentSettings = {} THEN 10
                        ELSE (CHOOSE r \in paymentSettings : TRUE).maxGroupsPerOrder
             IN  /\ n > max =>
                       /\ req'[p].pc = "done"
                       /\ req'[p].res = "LimitExceeded"
                       /\ UNCHANGED <<balance, transactions, orders>>
                 /\ n <= max => req'[p].res # "LimitExceeded"]_vars

\* C10 witness: with a maximum set by the administrator, an admission over it
\* was rejected
C10_Witness ==
    \E p \in Procs : /\ req[p].op = "order" /\ req[p].pc = "done"
                     /\ req[p].res = "LimitExceeded"
                     /\ paymentSettings # {}
                     /\ req[p].groupCount <= DefaultMaxGroups

\* C11: an admission of an account without an active connection is rejected
\* with NoActiveConnection at the connection check, whatever its balance, and
\* balance, transactions and orders are unchanged: no debit has been made.
C11_NoActiveConnection ==
    [][\A p \in Procs :
          (/\ req[p].pc = "getActiveTelegramConnection" /\ req'[p] # req[p]
           /\ ~\E c \in telegramConnections : c.userId = req[p].user /\ c.isActive)
          => /\ req'[p].pc = "done"
             /\ req'[p].res = "NoActiveConnection"
             /\ UNCHANGED <<balance, transactions, orders, timers, charged>>]_vars

\* C11 witness: an admission was rejected for its missing connection although
\* the balance covers every cost that can be asked
C11_Witness ==
    \E p \in Procs : /\ req[p].op = "order" /\ req[p].pc = "done"
                     /\ req[p].res = "NoActiveConnection"
                     /\ \A u \in Users : balance[u] >= 10

\* C12: an order row is created pending and its status changes only from
\* pending to processing and from processing to completed or failed; a
\* completed or failed order keeps its status.
C12_StatusTransitions ==
    [][/\ \A o \in DOMAIN orders :
             orders'[o].status # orders[o].status
             => <<orders[o].status, orders'[o].status>> \in
                    { <<"pending", "processing">>,
                      <<"processing", "completed">>,
                      <<"processing", "failed">> }
       /\ \A o \in DOMAIN orders' \ DOMAIN orders : orders'[o].status = "pending"]_vars

\* C12 witness: one order has gone to completed and another to failed after
\* some progress
C12_Witness ==
    \E o1, o2 \in DOMAIN orders :
        /\ orders[o1].status = "completed"
        /\ orders[o2].status = "failed" /\ orders[o2].groupsCreated >= 1

\* C14: no order gets a second fulfillment run; an order never has more
\* Group rows than groups requested, has at most one row per index, and its
\* groupsCreated never exceeds the requested count.
C14_AtMostOneRun ==
    \A o \in DOMAIN orders :
        /\ started[o] <= 1
        /\ Cardinality(GroupsOfOrder(o)) <= orders[o].groupCount
        /\ \A g, h \in GroupsOfOrder(o) :
              groups[g].groupName = groups[h].groupName => g = h
        /\ orders[o].groupsCreated <= orders[o].groupCount

\* C14 witness: the run of a two-group order has finished with both rows
\* while another order's run has also been started
C14_Witness ==
    \E o1, o2 \in DOMAIN orders :
        /\ o1 # o2
        /\ started[o1] = 1 /\ started[o2] = 1
        /\ run[o1].pc = "end" /\ orders[o1].groupCount = 2
        /\ Cardinality(GroupsOfOrder(o1)) = 2

\* C15: in every step, whichever run or request takes it, groupsCreated of
\* every order does not decrease, and it lies in 0..requestedGroupCount.
C15_MonotonicProgress ==
    [][\A o \in DOMAIN orders :
          /\ orders'[o].groupsCreated >= orders[o].groupsCreated
          /\ orders[o].groupsCreated >= 0
          /\ orders'[o].groupsCreated <= orders'[o].groupCount]_vars

\* C15 witness: an order failed after progress while the run of another
\* order was under way
C15_Witness ==
    \E o1, o2 \in DOMAIN orders :
        /\ orders[o1].status = "failed" /\ orders[o1].groupsCreated = 1
        /\ orders[o1].groupCount = 2
        /\ run[o2].pc = "createAutoMessage"

\* C16: each progress update of a run, and the update that completes the
\* order, leaves groupsCreated equal to the number of Group rows of the order.
C16_CountMatchesRows ==
    [][\A o \in DOMAIN orders :
          (/\ orders'[o] # orders[o]
           /\ run[o].pc \in {"updateOrderStatus", "completed"}
           /\ orders'[o].status \in {"processing", "completed"})
          => orders'[o].groupsCreated = Cardinality(GroupsOfOrder(o))]_vars

\* C16 witness: a two-group order is completed with two rows
C16_Witness ==
    \E o \in DOMAIN orders :
        /\ orders[o].status = "completed" /\ orders[o].groupCount = 2
        /\ Cardinality(GroupsOfOrder(o)) = 2

\* C17: when creating the group of an index fails, the run does not go to
\* its failure handling: it goes on with the next index (or completes), so
\* the order is not set to failed because of that index.
C17_GroupFailureSkipped ==
    [][\A o \in OrderIds :
          (run[o].pc = "createGroup" /\ run'[o] # run[o] /\ groups' = groups)
          => /\ run'[o].pc \in {"createGroup", "completed"}
             /\ run'[o].i = run[o].i + 1]_vars

\* C19: a run that has ended after its loop threw leaves the order failed,
\* with the message of the error and with the last progress value written.
C19_FailedWithMessage ==
    \A o \in DOMAIN orders :
        (run[o].pc \in {"end", "rejected"} /\ run[o].error \in Thrown)
        => /\ orders[o].status = "failed"
           /\ orders[o].errorMessage = ErrorMessage(run[o].error)
           /\ orders[o].groupsCreated = run[o].i - 1

\* C20: no step of a fulfillment run changes a balance or the transactions,
\* whether the run completes or fails: the cost of a failed order stays debited.
C20_RunLeavesLedger ==
    [][(\E o \in OrderIds : run'[o] # run[o])
          => UNCHANGED <<balance, transactions, applied, charged>>]_vars

\* C20 witness: an order that cost 0.10 has failed and the balance is still
\* the funds less the cost
C20_Witness ==
    \E o \in DOMAIN orders :
        /\ orders[o].status = "failed" /\ orders[o].cost = 10
        /\ run[o].pc = "end"
        /\ charged[orders[o].userId].sum = 10
        /\ balance[orders[o].userId] = 0

\* C13: under fair scheduling, every order whose row has been created (its
\* debit is applied before the row is created) eventually is completed or
\* failed.
C13_EventuallyFinished ==
    \A o \in OrderIds :
        [](o \in DOMAIN orders
              => <>(/\ o \in DOMAIN orders
                    /\ orders[o].status \in {"completed", "failed"}))

\* C18: for a group whose createChannel succeeded, the step that exports
\* the invite link adds the group to the result with its external id, and
\* with an empty invite link when the export failed.
C18_CreatedGroupKept ==
    [][(gateway.pc = "exportChatInvite" /\ gateway' # gateway)
          => /\ Len(gateway'.groups) = Len(gateway.groups) + 1
             /\ gateway'.groups[Len(gateway'.groups)].telegramGroupId = gateway.channelId
             /\ gateway'.outcome = "failed"
                   => gateway'.groups[Len(gateway'.groups)].inviteLink = ""]_vars

\* C21: no rejection leaves the callback of a run: whatever store call is
\* rejected inside it, the callback does not end with a rejection of its own.
C21_NoEscape == \A o \in OrderIds : run[o].pc # "rejected"

\* C22: a run in which no store call was rejected ends with the order
\* completed, groupsCreated equal to the requested count N, exactly N Group
\* rows, and between 10 and 15 auto-message rows for each of them.
C22_FullRun ==
    \A o \in DOMAIN orders :
        (run[o].pc = "end" /\ run[o].error \notin Thrown)
        => /\ orders[o].status = "completed"
           /\ orders[o].groupsCreated = orders[o].groupCount
           /\ Cardinality(GroupsOfOrder(o)) = orders[o].groupCount
           /\ \A g \in GroupsOfOrder(o) :
                 autoMessages[g] >= 10 /\ autoMessages[g] <= 15

\* C22 witness: a two-group order has ended completed, one group with 10 and
\* one with 15 auto-messages
C22_Witness ==
    \E o \in DOMAIN orders :
        /\ run[o].pc = "end" /\ orders[o].status = "completed"
        /\ orders[o].groupCount = 2
        /\ \E g, h \in GroupsOfOrder(o) : autoMessages[g] = 10 /\ autoMessages[h] = 15

\* C24: an approval of a transaction that is not a pending credit (a debit,
\* or a credit that is completed or failed) leaves the status of the
\* transaction and every balance unchanged.
C24_ApproveOtherIsNoOp ==
    [][\A p \in Procs :
          (/\ Free(p) /\ req'[p] # req[p] /\ req'[p].op = "approve"
           /\ req'[p].tx \in DOMAIN transactions
           /\ ~(/\ transactions[req'[p].tx].type = "credit"
                /\ transactions[req'[p].tx].status = "pending"))
          => /\ transactions'[req'[p].tx].status = transactions[req'[p].tx].status
             /\ balance' = balance]_vars

\* C25: a credit row made by a user's payment claim is made pending, and a
\* credit goes from pending to completed only in a step of an approval of
\* that transaction.
C25_CompletedOnlyByApproval ==
    [][/\ \A t \in DOMAIN transactions' \ DOMAIN transactions :
             (transactions'[t].type = "credit" /\ transactions'[t].description = "user")
             => transactions'[t].status = "pending"
       /\ \A t \in DOMAIN transactions :
             (/\ transactions[t].type = "credit"
              /\ transactions[t].status = "pending"
              /\ transactions'[t].status = "completed")
             => \E p \in Procs : /\ req'[p] # req[p]
                                 /\ req'[p].op = "approve"
                                 /\ req'[p].tx = t]_vars

\* the sum of the completed rows of a kind of an account
CompletedRows(u, type) ==
    {t \in DOMAIN transactions :
        /\ transactions[t].userId = u
        /\ transactions[t].type = type
        /\ transactions[t].status = "completed"}

\* C26: whenever no request is in progress, the balance of every account is
\* the sum of its completed credits less the sum of its completed debits.
C26_BalanceIsLedgerSum ==
    (\A p \in Procs : Free(p))
    => \A u \in Users :
          balance[u] = SumAmounts(CompletedRows(u, "credit"))
                          - SumAmounts(CompletedRows(u, "debit"))

\* C23: an AutoMessage row is written only by a successful send of the
\* gateway and every successful send writes one, so in every step the rows
\* of a group grow by exactly the number of messages sent to it
C23_RowPerSend ==
    [][\A g \in GroupIds :
          autoMessages'[g] - autoMessages[g] = sent'[g] - sent[g]]_vars

\* C27: no call of the gateway has ended with its client still connected,
\* whether it returned or threw
C27_EndsDisconnected ==
    /\ gateway.pc = "done" => ~gateway.connected
    /\ sender.pc = "done" => ~sender.connected

\* C28: when the expiry timer set for a stored verification client fires and
\* that client never signed in, the client is connected no longer and no
\* entry holds it, also when a later request replaced its entry
C28_ExpiryDisposes ==
    [][(otpTimers # <<>> /\ otpTimers' = Tail(otpTimers)) =>
          LET client == Head(otpTimers).client
          IN  clients[client] # "signedIn" =>
                  /\ clients'[client] \notin ConnectedStates
                  /\ \A key \in SessionKeys : activeSessions'[key] # client]_vars

\* C29: a sign-in for a key without an entry fails and leaves the pending
\* entries as they are; one for a key with an entry ends either ok, with the
\* client it used signed in, or failed, with that client disconnected; and
\* when it has ended no entry for the key remains
C29_SignInOutcomes ==
    [][verifyCall' # verifyCall =>
          IF verifyCall.pc = "signInUser"
          THEN /\ verifyCall'.pc = "done"
               /\ activeSessions'[verifyCall.key] = 0
               /\ verifyCall'.res = "ok" =>
                      clients'[verifyCall.client] = "signedIn"
               /\ verifyCall'.res = "Failed" =>
                      clients'[verifyCall.client] \notin ConnectedStates
          ELSE verifyCall'.pc = "done" =>
                  /\ verifyCall'.res = "Failed"
                  /\ activeSessions[verifyCall'.key] = 0
                  /\ activeSessions' = activeSessions
                  /\ clients' = clients]_vars

\* C30: the stats sent for an account hold its balance, the number of group
\* rows it owns, the number of its orders that are pending or processing and
\* the number that are completed, each as the store holds them when it is
\* read: failed orders are in neither order count, and no row of another
\* account is counted
C30_StatsOfAccount ==
    [][\A p \in Procs :
          LET u == req'[p].user
              mine == {o \in DOMAIN orders : orders[o].userId = u}
              withStatus(S) == Cardinality({o \in mine : orders[o].status \in S})
          IN  /\ (Free(p) /\ req'[p].pc = "getUserStats.selectOrders") =>
                     req'[p].stats.balance = balance[u]
              /\ (req[p].pc = "getUserStats.selectOrders"
                    /\ req'[p].pc = "getUserStats.countGroups") =>
                     /\ req'[p].stats.activeOrders =
                            withStatus({"pending", "processing"})
                     /\ req'[p].stats.completedOrders = withStatus({"completed"})
                     /\ req'[p].stats.activeOrders + req'[p].stats.completedOrders
                            = Cardinality(mine) - withStatus({"failed"})
                     /\ req'[p].stats.balance = req[p].stats.balance
              /\ (req[p].pc = "getUserStats.countGroups" /\ req'[p].res = "ok") =>
                     /\ req'[p].stats.totalGroups =
                            Cardinality({g \in DOMAIN groups :
                                            groups[g].userId = u})
                     /\ req'[p].stats.balance = req[p].stats.balance
                     /\ req'[p].stats.activeOrders = req[p].stats.activeOrders
                     /\ req'[p].stats.completedOrders =
                            req[p].stats.completedOrders]_vars

\* C30 witness: stats were sent for a funded account that owns one group and
\* one failed order, while another account owns a completed order and a
\* group: one group, no active and no completed order are reported
C30_Witness ==
    /\ req["p2"].op = "stats" /\ req["p2"].res = "ok"
    /\ req["p2"].stats = [balance |-> balance[req["p2"].user],
                          totalGroups |-> 1, activeOrders |-> 0,
                          completedOrders |-> 0]
    /\ balance[req["p2"].user] > 0
    /\ Len(groups) = 2 /\ Len(orders) = 2
    /\ orders[1].userId = OtherAccount /\ orders[1].status = "completed"
    /\ orders[2].userId = req["p2"].user /\ orders[2].status = "failed"
    /\ groups[2].userId = req["p2"].user

C32_NoGroupOfPendingOrder ==
    \A g \in DOMAIN groups : orders[groups[g].orderId].status # "pending"

\* C32 witness: the first group of an order exists while the order is
\* processing and its progress has not been updated yet
C32_Witness ==
    \E g \in DOMAIN groups :
        /\ orders[groups[g].orderId].status = "processing"
        /\ orders[groups[g].orderId].groupsCreated = 0
        /\ run[groups[g].orderId].pc = "createAutoMessage"

\* C33: when an Order row is inserted, the decrement of the balance and the
\* completed debit row of the same account for the cost of the order have
\* been made before and belong to no earlier order; and a Group row always
\* refers to an order that exists, so no group precedes that debit
C33_FundsReservedFirst ==
    /\ [](\A g \in DOMAIN groups : groups[g].orderId \in DOMAIN orders)
    /\ [][Len(orders') > Len(orders) =>
             LET o    == orders'[Len(orders')]
                 mine == {x \in DOMAIN orders : orders[x].userId = o.userId}
                 paid == {t \in OrderDebits(o.userId) :
                             transactions[t].status = "completed"}
             IN  /\ \E t \in paid : transactions[t].amount = o.cost
                 /\ Cardinality(paid) > Cardinality(mine)
                 /\ charged[o.userId].n > Cardinality(mine)]_vars

\* C33 witness: an order that cost 0.10 has a group, and the account has the
\* completed debit row of 0.10 and its balance is lower by 0.10
C33_Witness ==
    \E o \in DOMAIN orders :
        /\ orders[o].cost = 10 /\ Len(orders) = 1
        /\ GroupsOfOrder(o) # {}
        /\ \E t \in OrderDebits(orders[o].userId) :
              /\ transactions[t].status = "completed"
              /\ transactions[t].amount = 10
        /\ balance[orders[o].userId] = 0
        /\ deltas[orders[o].userId] = 0 /\ charged[orders[o].userId].sum = 10

\* C34: the groups of one order are made one at a time in the order of
\* their index 1, 2, ...: when the group of the next index exists, every
\* earlier group of the order has all its messages and the progress of the
\* order counts it, and messages are only ever added to the latest group of
\* an order; the runs of different orders are not ordered among each other
C34_SequentialByIndex ==
    /\ [](\A o \in DOMAIN orders :
             LET G == GroupsOfOrder(o)
                 n == Cardinality(G)
             IN  /\ {groups[g].groupName : g \in G} = 1..n
                 /\ \A g1, g2 \in G :
                       g1 < g2 => groups[g1].groupName < groups[g2].groupName
                 /\ \A g \in G :
                       groups[g].groupName < n => autoMessages[g] >= MinMessages
                 /\ n >= 1 => orders[o].groupsCreated >= n - 1)
    /\ [][\A g \in DOMAIN groups :
             autoMessages'[g] > autoMessages[g] =>
                 groups[g].groupName = Cardinality(GroupsOfOrder(groups[g].orderId))]_vars

\* C34 witness: the second group of one order exists while the first group
\* of another order, made in between, has not got all its messages yet
C34_Witness ==
    /\ Len(groups) = 3
    /\ groups[1].orderId = groups[3].orderId
    /\ groups[2].orderId # groups[1].orderId
    /\ groups[3].groupName = 2
    /\ autoMessages[2] > 0 /\ autoMessages[2] < MinMessages

\* C35: a call of updateOrderStatus writes the status it is given, writes
\* groupsCreated only when a number is supplied and errorMessage only when a
\* message is supplied, stamps completedAt when the new status is completed
\* and leaves it otherwise, and changes no other field and no other order
C35_PartialUpdate ==
    [][\A p \in Procs :
          (req'[p].op = "setOrderStatus" /\ (req'[p] # req[p] \/ orders' # orders))
          => LET o == req'[p].order
                 a == req'[p].args
             IN  /\ DOMAIN orders' = DOMAIN orders
                 /\ \A x \in DOMAIN orders : x # o => orders'[x] = orders[x]
                 /\ orders'[o].status = a.status
                 /\ orders'[o].groupsCreated =
                        IF a.groupsCreated = Undefined
                        THEN orders[o].groupsCreated ELSE a.groupsCreated
                 /\ orders'[o].errorMessage =
                        IF a.errorMessage \in {NULL, ""}
                        THEN orders[o].errorMessage ELSE a.errorMessage
                 /\ orders'[o].completedAt =
                        IF a.status = "completed" THEN TRUE
                        ELSE orders[o].completedAt
                 /\ orders'[o].userId = orders[o].userId
                 /\ orders'[o].groupCount = orders[o].groupCount
                 /\ orders'[o].cost = orders[o].cost]_vars

\* C35 witness: an order that had failed with a message was set to
\* processing with neither a count nor a message supplied: its count, its
\* message and its missing completion stamp are as they were
C35_Witness ==
    \E p \in Procs :
        /\ req[p].op = "setOrderStatus"
        /\ req[p].args = [status |-> "processing", groupsCreated |-> Undefined,
                          errorMessage |-> NULL]
        /\ orders[req[p].order] =
              [userId |-> "u1", groupCount |-> 2, cost |-> 0,
               status |-> "processing", groupsCreated |-> 1,
               errorMessage |-> "store error", completedAt |-> FALSE]

\* C36: every admission that is answered with the order has made a
\* decrement that is greater than 0, and the cost of its order and the
\* amount of its debit row are greater than 0
C36_AdmissionDebits ==
    [][\A p \in Procs :
          (req[p].pc = "updateOrderStatus" /\ req'[p].res = "ok")
          => LET o == orders'[req[p].order]
             IN  /\ req[p].orderCost.v > 0
                 /\ o.cost > 0
                 /\ \E t \in OrderDebits(o.userId) :
                       /\ transactions[t].amount = o.cost
                       /\ transactions[t].amount > 0]_vars

\* C37: an admission that has made its decrement and then fails at the
\* insert of the Order row or at marking it processing does not end with
\* the account charged for nothing: in the step that ends it the decrement
\* is given back, or the order exists, is processing and its run is
\* scheduled
C37_NoChargeWithoutOrder ==
    [][\A p \in Procs :
          (req[p].pc \in {"createOrder", "updateOrderStatus"}
             /\ req'[p].pc = "done" /\ req'[p].res = "Failed")
          => LET u == req[p].user
             IN  \/ balance'[u] = balance[u] + req[p].orderCost.v
                 \/ \E o \in DOMAIN orders' :
                       /\ o = req'[p].order
                       /\ orders'[o].status = "processing"
                       /\ o \in timers']_vars

\* C38: groupsCreated of every order is at most the number of its Group
\* rows and at least that number less one, in every state, also when the
\* order has failed
C38_CounterLagsByOne ==
    \A o \in DOMAIN orders :
        LET rows == Cardinality({g \in DOMAIN groups : groups[g].orderId = o})
        IN  /\ orders[o].groupsCreated <= rows
            /\ orders[o].groupsCreated >= rows - 1

\* C38 witness: an order has failed during the messages of its second group:
\* two rows, groupsCreated 1
C38_Witness ==
    \E o \in DOMAIN orders :
        /\ orders[o].status = "failed"
        /\ orders[o].groupsCreated = 1
        /\ Cardinality({g \in DOMAIN groups : groups[g].orderId = o}) = 2
        /\ \E g \in DOMAIN groups :
              /\ groups[g].orderId = o /\ groups[g].groupName = 2
              /\ autoMessages[g] < MinMessages

\* C39: the expiry timer set by one call of sendTelegramOTP touches only the
\* entry that call stored: an entry that holds the client of a later call
\* is neither removed nor disconnected when the older timer fires
C39_TimerOwnEntryOnly ==
    [][(otpTimers # <<>> /\ otpTimers' = Tail(otpTimers)) =>
          \A key \in SessionKeys :
              LET client == activeSessions[key]
              IN  (client # 0 /\ client # Head(otpTimers).client) =>
                      /\ activeSessions'[key] = client
                      /\ clients'[client] = clients[client]]_vars

====
